---- MODULE Spec2Model ----
(***************************************************************************)
(* creativebot: the phrase normalizer, the interning table and the         *)
(* inverted word -> phrase index of src/src/phrase_indexing.rs, and the    *)
(* text / setprob handlers and generate_phrase of src/src/main.rs.         *)
(*                                                                         *)
(* A text is a sequence of one-character strings; every character of the   *)
(* model is one byte wide, so a byte offset is a 0-based position.         *)
(*                                                                         *)
(* Spec is the bot with its concurrent handler tasks, SpecIndex is         *)
(* IndexedPhrases under a sequence of insert_phrase calls, SpecLookup is   *)
(* one get_phrases_with_word_in_common call on an index, SpecSplice is     *)
(* concatenate_indexed_phrases applied to two occurrences of a word,       *)
(* SpecNorm is normalize_text_into_phrases applied to a text and SpecBoot  *)
(* is init_indexed_phrases reading the lines of the database file.         *)
(***************************************************************************)
EXTENDS Integers, Sequences, FiniteSets, TLC

(***************************************************************************)
(* Bounds of the model.                                                    *)
(***************************************************************************)
MaxMsgLen == 5
MaxMsgs == 2
MaxInserts == 2
MaxNormLen == 4
MaxSegmentLen == 3
MaxLines == 1

(***************************************************************************)
(* Characters, one or two representatives of every class the code tells    *)
(* apart.                                                                  *)
(***************************************************************************)
Lowercase == {"a"}
Uppercase == {"A"}
\* split(&['.', ';'])
PeriodChars == {".", ";"}
\* [[:punct:]]
PunctuationChars == {"!", ".", ";"}
\* \s of the regex and of str::trim
WhitespaceChars == {" ", "\t"}
\* char::is_ascii_whitespace, as used by split_ascii_whitespace
AsciiWhitespaceChars == {" ", "\t"}
Chars == Lowercase \cup Uppercase \cup PunctuationChars \cup WhitespaceChars
\* the characters of the messages given to the bot: a letter in both cases,
\* both whitespace characters and a period
MsgChars == {"a", "A", " ", "\t", "."}

to_lowercase_char(c) == IF c = "A" THEN "a" ELSE c

contains(text, c) == \E i \in 1..Len(text) : text[i] = c

\* text[pos..] and text[..pos] for a 0-based byte offset pos
slice_from(text, pos) == SubSeq(text, pos + 1, Len(text))
slice_to(text, pos) == SubSeq(text, 1, pos)

(***************************************************************************)
(* The normalizer.                                                         *)
(***************************************************************************)
RECURSIVE split(_, _, _)
split(text, seps, cur) ==
    IF text = <<>> THEN <<cur>>
    ELSE IF Head(text) \in seps THEN <<cur>> \o split(Tail(text), seps, <<>>)
    ELSE split(Tail(text), seps, Append(cur, Head(text)))

split_text_at_periods(text) ==
    SelectSeq(split(text, PeriodChars, <<>>), LAMBDA s : s # <<>>)

normalize_punctuation_to_whitespace(text) ==
    [i \in 1..Len(text) |-> IF text[i] \in PunctuationChars THEN " " ELSE text[i]]

RECURSIVE trim_start(_)
trim_start(text) ==
    IF text # <<>> /\ Head(text) \in WhitespaceChars THEN trim_start(Tail(text))
    ELSE text

RECURSIVE trim_end(_)
trim_end(text) ==
    IF text # <<>> /\ text[Len(text)] \in WhitespaceChars
    THEN trim_end(SubSeq(text, 1, Len(text) - 1))
    ELSE text

trim(text) == trim_end(trim_start(text))

\* a faulty variant: no run of whitespace is replaced
replace_extra_whitespace_keeping_runs(text) == text

\* replace_all of \s\s+ by one space: a maximal run of two or more whitespace
\* characters becomes " ", a lone whitespace character is kept as it is
RECURSIVE replace_extra_whitespace(_)
replace_extra_whitespace(text) ==
    IF text = <<>> THEN <<>>
    ELSE IF Head(text) \in WhitespaceChars
              /\ Len(text) >= 2 /\ text[2] \in WhitespaceChars
         THEN <<" ">> \o replace_extra_whitespace(trim_start(text))
    ELSE <<Head(text)>> \o replace_extra_whitespace(Tail(text))

normalize_extra_whitespaces(text) == replace_extra_whitespace(trim(text))

to_lowercase(text) == [i \in 1..Len(text) |-> to_lowercase_char(text[i])]

normalize_text_into_phrases(text) ==
    LET subtexts == split_text_at_periods(text)
    IN  [i \in 1..Len(subtexts) |->
            to_lowercase(normalize_extra_whitespaces(
                normalize_punctuation_to_whitespace(subtexts[i])))]

(***************************************************************************)
(* IndexedPhrases: the interning table and the inverted index.  An id is   *)
(* a 0-based position of the Vec indexed_texts.                            *)
(***************************************************************************)
new_IndexedPhrases ==
    [interned_texts |-> <<>>,
     indexed_texts |-> <<>>,
     indexed_phrases_by_word |-> <<>>]

text_of(ip, index) == ip.indexed_texts[index + 1]

\* a faulty variant: the text is pushed again although it is interned already
intern_text_pushing_again(ip, text) ==
    IF text \in DOMAIN ip.interned_texts
    THEN [ip |-> [ip EXCEPT !.indexed_texts = Append(ip.indexed_texts, text)],
          index |-> ip.interned_texts[text]]
    ELSE LET new_index == Len(ip.indexed_texts)
         IN  [ip |-> [ip EXCEPT
                        !.interned_texts = (text :> new_index) @@ ip.interned_texts,
                        !.indexed_texts = Append(ip.indexed_texts, text)],
              index |-> new_index]

\* a faulty variant: a new id is allocated without looking the text up
intern_text_always_allocating(ip, text) ==
    LET new_index == Len(ip.indexed_texts)
    IN  [ip |-> [ip EXCEPT
                   !.interned_texts = (text :> new_index) @@ ip.interned_texts,
                   !.indexed_texts = Append(ip.indexed_texts, text)],
         index |-> new_index]

intern_text(ip, text) ==
    IF text \in DOMAIN ip.interned_texts
    THEN [ip |-> ip, index |-> ip.interned_texts[text]]
    ELSE LET new_index == Len(ip.indexed_texts)
         IN  [ip |-> [ip EXCEPT
                        !.interned_texts = (text :> new_index) @@ ip.interned_texts,
                        !.indexed_texts = Append(ip.indexed_texts, text)],
              index |-> new_index]

\* a faulty variant: the new occurrence replaces the ones stored for the word
link_phrase_to_word_replacing_occurrences(ip, phrase_index, word_index, word_pos_in_phrase) ==
    [ip EXCEPT !.indexed_phrases_by_word =
        (word_index :> {[interned_phrase_index |-> phrase_index,
                         word_pos_in_phrase |-> word_pos_in_phrase]})
            @@ ip.indexed_phrases_by_word]

link_phrase_to_word(ip, phrase_index, word_index, word_pos_in_phrase) ==
    LET by_word == ip.indexed_phrases_by_word
        phrase_indices == IF word_index \in DOMAIN by_word
                          THEN by_word[word_index] ELSE {}
        indexed_phrase == [interned_phrase_index |-> phrase_index,
                           word_pos_in_phrase |-> word_pos_in_phrase]
    IN  [ip EXCEPT !.indexed_phrases_by_word =
            (word_index :> (phrase_indices \cup {indexed_phrase})) @@ by_word]

\* str::split_ascii_whitespace: the maximal runs of non-whitespace bytes
split_ascii_whitespace(text) ==
    SelectSeq(split(text, AsciiWhitespaceChars, <<>>), LAMBDA s : s # <<>>)

\* a faulty variant: the separator after a word is not counted
RECURSIVE insert_words_not_counting_separator(_, _, _, _, _)
insert_words_not_counting_separator(ip, interned_phrase_index, words, word_pos_in_phrase, word_indices) ==
    IF words = <<>>
    THEN [ip |-> ip, word_indices_from_phrase |-> word_indices]
    ELSE LET word == Head(words)
             interned == intern_text(ip, word)
             linked == link_phrase_to_word(interned.ip, interned_phrase_index,
                                           interned.index, word_pos_in_phrase)
         IN  insert_words_not_counting_separator(
                 linked, interned_phrase_index, Tail(words),
                 word_pos_in_phrase + Len(word),
                 Append(word_indices, interned.index))

\* a faulty variant: a word id is reported once however often the word occurs
RECURSIVE insert_words_reporting_each_word_once(_, _, _, _, _)
insert_words_reporting_each_word_once(ip, interned_phrase_index, words, word_pos_in_phrase, word_indices) ==
    IF words = <<>>
    THEN [ip |-> ip, word_indices_from_phrase |-> word_indices]
    ELSE LET word == Head(words)
             interned == intern_text(ip, word)
             linked == link_phrase_to_word(interned.ip, interned_phrase_index,
                                           interned.index, word_pos_in_phrase)
         IN  insert_words_reporting_each_word_once(
                 linked, interned_phrase_index, Tail(words),
                 word_pos_in_phrase + Len(word) + 1,
                 IF \E i \in 1..Len(word_indices) : word_indices[i] = interned.index
                 THEN word_indices
                 ELSE Append(word_indices, interned.index))

\* the for loop of insert_phrase over the words that are left
RECURSIVE insert_words(_, _, _, _, _)
insert_words(ip, interned_phrase_index, words, word_pos_in_phrase, word_indices) ==
    IF words = <<>>
    THEN [ip |-> ip, word_indices_from_phrase |-> word_indices]
    ELSE LET word == Head(words)
             interned == intern_text(ip, word)
             linked == link_phrase_to_word(interned.ip, interned_phrase_index,
                                           interned.index, word_pos_in_phrase)
         IN  insert_words(linked, interned_phrase_index, Tail(words),
                          word_pos_in_phrase + Len(word) + 1,
                          Append(word_indices, interned.index))

\* a faulty variant: a single-word phrase is indexed like any other phrase
insert_phrase_indexing_single_words(ip, phrase_content) ==
    LET interned == intern_text(ip, phrase_content)
        looped == insert_words(interned.ip, interned.index,
                               split_ascii_whitespace(phrase_content), 0, <<>>)
    IN  [ip |-> looped.ip,
         res |-> [has_inserted_phrase |-> contains(phrase_content, " "),
                  word_indices_from_phrase |-> looped.word_indices_from_phrase]]

insert_phrase(ip, phrase_content) ==
    IF ~contains(phrase_content, " ")
    THEN LET interned == intern_text(ip, phrase_content)
         IN  [ip |-> interned.ip,
              res |-> [has_inserted_phrase |-> FALSE,
                       word_indices_from_phrase |-> <<interned.index>>]]
    ELSE LET interned == intern_text(ip, phrase_content)
             looped == insert_words(interned.ip, interned.index,
                                    split_ascii_whitespace(phrase_content), 0, <<>>)
         IN  [ip |-> looped.ip,
              res |-> [has_inserted_phrase |-> TRUE,
                       word_indices_from_phrase |-> looped.word_indices_from_phrase]]

get_common_words(ip) ==
    {text_of(ip, key_index) : key_index \in DOMAIN ip.indexed_phrases_by_word}

get_words_for_indices(ip, word_indices) ==
    [i \in 1..Len(word_indices) |-> text_of(ip, word_indices[i])]

\* a faulty variant: a word that is no key has no phrases
get_phrases_with_word_in_common_tolerating_unknown_words(ip, word) ==
    IF word \notin DOMAIN ip.interned_texts
         \/ ip.interned_texts[word] \notin DOMAIN ip.indexed_phrases_by_word
    THEN [fault |-> FALSE, phrases |-> {}]
    ELSE [fault |-> FALSE,
          phrases |->
            {[phrase_content |-> text_of(ip, p.interned_phrase_index),
              word_pos_in_phrase |-> p.word_pos_in_phrase] :
               p \in ip.indexed_phrases_by_word[ip.interned_texts[word]]}]

\* faults (debug_assert! or unwrap of None) when the word was never interned or
\* is no key of the inverted index
get_phrases_with_word_in_common(ip, word) ==
    IF word \notin DOMAIN ip.interned_texts
    THEN [fault |-> TRUE, phrases |-> {}]
    ELSE LET word_index == ip.interned_texts[word]
         IN  IF word_index \notin DOMAIN ip.indexed_phrases_by_word
             THEN [fault |-> TRUE, phrases |-> {}]
             ELSE [fault |-> FALSE,
                   phrases |->
                     {[phrase_content |-> text_of(ip, p.interned_phrase_index),
                       word_pos_in_phrase |-> p.word_pos_in_phrase] :
                        p \in ip.indexed_phrases_by_word[word_index]}]

\* a faulty variant: the second phrase is taken from its start
concatenate_indexed_phrases_taking_second_whole(first_phrase, second_phrase) ==
    LET swap == /\ first_phrase.word_pos_in_phrase = 0
                /\ ~contains(slice_from(second_phrase.phrase_content,
                                        second_phrase.word_pos_in_phrase), " ")
        first == IF swap THEN second_phrase ELSE first_phrase
        second == IF swap THEN first_phrase ELSE second_phrase
    IN  slice_to(first.phrase_content, first.word_pos_in_phrase)
            \o second.phrase_content

\* a faulty variant: the two phrases are never swapped
concatenate_indexed_phrases_never_swapping(first_phrase, second_phrase) ==
    slice_to(first_phrase.phrase_content, first_phrase.word_pos_in_phrase)
        \o slice_from(second_phrase.phrase_content, second_phrase.word_pos_in_phrase)

\* a faulty variant: the phrases are swapped when either condition holds
concatenate_indexed_phrases_swapping_on_either(first_phrase, second_phrase) ==
    LET swap == \/ first_phrase.word_pos_in_phrase = 0
                \/ ~contains(slice_from(second_phrase.phrase_content,
                                        second_phrase.word_pos_in_phrase), " ")
        first == IF swap THEN second_phrase ELSE first_phrase
        second == IF swap THEN first_phrase ELSE second_phrase
    IN  slice_to(first.phrase_content, first.word_pos_in_phrase)
            \o slice_from(second.phrase_content, second.word_pos_in_phrase)

concatenate_indexed_phrases(first_phrase, second_phrase) ==
    LET swap == /\ first_phrase.word_pos_in_phrase = 0
                /\ ~contains(slice_from(second_phrase.phrase_content,
                                        second_phrase.word_pos_in_phrase), " ")
        first == IF swap THEN second_phrase ELSE first_phrase
        second == IF swap THEN first_phrase ELSE second_phrase
    IN  slice_to(first.phrase_content, first.word_pos_in_phrase)
            \o slice_from(second.phrase_content, second.word_pos_in_phrase)

(***************************************************************************)
(* The bot: BotState behind a tokio Mutex, the text handler and the        *)
(* setprob handler.  Every update runs its handler as a task of its own.   *)
(***************************************************************************)
TextHandlers == {"t1", "t2"}
SetprobHandlers == {"s1"}
NoHolder == "free"

\* the texts of at most MaxMsgLen characters
RECURSIVE texts_of_len(_, _)
texts_of_len(chars, n) ==
    IF n = 0 THEN {<<>>}
    ELSE {Append(t, c) : t \in texts_of_len(chars, n - 1), c \in chars}

Messages == UNION {texts_of_len(MsgChars, n) : n \in 0..MaxMsgLen}

\* what the for loop of the text handler iterates over, for every message
NormalizedMessages == {normalize_text_into_phrases(m) : m \in Messages}

\* reply_prob and the draws of rng.gen::<f32>() in halves: 0 is 0.0, 2 is 1.0;
\* a draw lies in [0, 1)
RngDraws == {0, 1}
SetprobMessages == {"0", "1", "x"}
\* str::parse::<f32>: <<p>> is Ok(p), <<>> is Err
parse_f32(msg_text) ==
    IF msg_text = "0" THEN <<0>> ELSE IF msg_text = "1" THEN <<2>> ELSE <<>>

no_generation ==
    [picked_word |-> <<>>, first_phrase |-> <<>>, second_phrase |-> <<>>,
     generated_response |-> <<>>, outcome |-> "none"]
no_insertion_res == <<>>

VARIABLES
    indexed_phrases,            \* BotState.indexed_phrases
    reply_prob,                 \* BotState.reply_prob
    mutex,                      \* the handler that holds the Mutex, or NoHolder
    database,                   \* the lines of bot_memory.txt appended so far
    pc,                         \* where each handler task is
    phrases,                    \* text handler: the phrases the loop has left
    word_indices_from_phrases,  \* text handler: the HashSet of word ids
    insertion_res,              \* text handler: <<the last InsertionResult>>
    generation,                 \* text handler: what generate_phrase did
    new_prob,                   \* setprob handler: <<the parsed value>>
    calls,                      \* history: the phrases insert_phrase was given
    msg_count,                  \* history: text messages taken so far
    splice,                     \* a call of concatenate_indexed_phrases on its own
    norm,                       \* a call of normalize_text_into_phrases on its own
    index_op,                   \* the last call made on IndexedPhrases on its own
    boot                        \* init_indexed_phrases: its locals and the files

vars == <<indexed_phrases, reply_prob, mutex, database, pc, phrases,
          word_indices_from_phrases, insertion_res, generation, new_prob,
          calls, msg_count, splice, norm, index_op, boot>>

no_splice ==
    [word |-> <<>>, first_phrase |-> <<>>, second_phrase |-> <<>>,
     sentence |-> <<>>]

InitBot ==
    /\ indexed_phrases = new_IndexedPhrases
    /\ reply_prob = 2
    /\ mutex = NoHolder
    /\ database = <<>>
    /\ pc = [h \in TextHandlers \cup SetprobHandlers |-> "idle"]
    /\ phrases = [h \in TextHandlers |-> <<>>]
    /\ word_indices_from_phrases = [h \in TextHandlers |-> {}]
    /\ insertion_res = [h \in TextHandlers |-> no_insertion_res]
    /\ generation = [h \in TextHandlers |-> no_generation]
    /\ new_prob = [h \in SetprobHandlers |-> <<>>]
    /\ calls = <<>>
    /\ msg_count = 0

no_norm == [text |-> <<>>, phrases |-> <<>>]

no_index_op == [op |-> "none", arg |-> <<>>, res |-> <<>>]

\* init_indexed_phrases before its first line: corrected_lines is Vec::new()
new_boot ==
    [pc |-> "lines", lines |-> <<>>, phrases |-> <<>>, corrected_lines |-> <<>>,
     new_file |-> <<>>]

Init ==
    /\ InitBot
    /\ splice = no_splice
    /\ norm = no_norm
    /\ index_op = no_index_op
    /\ boot = new_boot

\* a faulty variant: the lock is handed out whoever holds it
lock_acquired_while_held(h) == TRUE

\* Mutex::lock().await completes only while nobody holds the lock
lock_acquired(h) == mutex = NoHolder

\* a text update arrives and its task takes the lock (main.rs line 32)
TextLock(h) ==
    /\ pc[h] \in {"idle", "panicked"}
    /\ msg_count < MaxMsgs
    /\ lock_acquired(h)
    /\ mutex' = h
    /\ pc' = [pc EXCEPT ![h] = "normalize"]
    /\ msg_count' = msg_count + 1
    /\ phrases' = [phrases EXCEPT ![h] = <<>>]
    /\ word_indices_from_phrases' = [word_indices_from_phrases EXCEPT ![h] = {}]
    /\ insertion_res' = [insertion_res EXCEPT ![h] = no_insertion_res]
    /\ generation' = [generation EXCEPT ![h] = no_generation]
    /\ UNCHANGED <<norm, boot, index_op, splice, indexed_phrases, reply_prob, database, new_prob, calls>>

\* normalize_text_into_phrases(msg_text.into()) (main.rs lines 34-37)
TextNormalize(h) ==
    /\ pc[h] = "normalize"
    /\ \E normalized \in NormalizedMessages :
         phrases' = [phrases EXCEPT ![h] = normalized]
    /\ pc' = [pc EXCEPT ![h] = "insert"]
    /\ UNCHANGED <<norm, boot, index_op, splice, indexed_phrases, reply_prob, mutex, database,
                   word_indices_from_phrases, insertion_res, generation,
                   new_prob, calls, msg_count>>

\* store_line_in_database: the line is appended
store_line_in_database(lines, line) == Append(lines, line)

\* one iteration of the for loop (main.rs lines 37-53)
TextInsert(h) ==
    /\ pc[h] = "insert"
    /\ phrases[h] # <<>>
    /\ LET phrase == Head(phrases[h])
           done == insert_phrase(indexed_phrases, phrase)
       IN  /\ indexed_phrases' = done.ip
           /\ insertion_res' = [insertion_res EXCEPT ![h] = <<done.res>>]
           /\ word_indices_from_phrases' =
                [word_indices_from_phrases EXCEPT ![h] =
                    @ \cup {done.res.word_indices_from_phrase[i] :
                              i \in 1..Len(done.res.word_indices_from_phrase)}]
           /\ database' = IF done.res.has_inserted_phrase
                          THEN store_line_in_database(database, phrase)
                          ELSE database
           /\ calls' = Append(calls, phrase)
    /\ phrases' = [phrases EXCEPT ![h] = Tail(@)]
    /\ UNCHANGED <<norm, boot, index_op, splice, reply_prob, mutex, pc, generation, new_prob, msg_count>>

\* the task ends and the MutexGuard is dropped
text_handler_ends(h) ==
    /\ pc' = [pc EXCEPT ![h] = "idle"]
    /\ mutex' = NoHolder
    /\ phrases' = [phrases EXCEPT ![h] = <<>>]
    /\ word_indices_from_phrases' = [word_indices_from_phrases EXCEPT ![h] = {}]
    /\ insertion_res' = [insertion_res EXCEPT ![h] = no_insertion_res]
    /\ generation' = [generation EXCEPT ![h] = no_generation]

\* the loop is over: rng.gen::<f32>() >= reply_prob returns (main.rs lines 55-57)
TextRng(h) ==
    /\ pc[h] = "insert"
    /\ phrases[h] = <<>>
    /\ \E draw \in RngDraws :
         IF draw >= reply_prob
         THEN text_handler_ends(h)
         ELSE /\ pc' = [pc EXCEPT ![h] = "generate"]
              /\ UNCHANGED <<mutex, phrases, word_indices_from_phrases,
                             insertion_res, generation>>
    /\ UNCHANGED <<norm, boot, index_op, splice, indexed_phrases, reply_prob, database, new_prob, calls,
                   msg_count>>

\* word_indices_from_phrases.into_iter().collect(): the ids in some order
collect(ids) ==
    CHOOSE v \in [1..Cardinality(ids) -> ids] :
        \A i, j \in 1..Cardinality(ids) : i # j => v[i] # v[j]

\* a panic unwinds the task: the MutexGuard is dropped, nothing is rolled back
text_handler_panics(h, outcome) ==
    /\ pc' = [pc EXCEPT ![h] = "panicked"]
    /\ mutex' = NoHolder
    /\ generation' = [generation EXCEPT ![h] =
                        [no_generation EXCEPT !.outcome = outcome]]
    /\ phrases' = [phrases EXCEPT ![h] = <<>>]
    /\ word_indices_from_phrases' = [word_indices_from_phrases EXCEPT ![h] = {}]
    /\ insertion_res' = [insertion_res EXCEPT ![h] = no_insertion_res]

\* the candidate words of generate_phrase (main.rs lines 142-148)
candidate_words(h) ==
    LET word_indices == collect(word_indices_from_phrases[h])
    IN  IF word_indices = <<>>
        THEN collect(get_common_words(indexed_phrases))
        ELSE get_words_for_indices(indexed_phrases, word_indices)

\* generate_phrase (main.rs lines 135-160), called at main.rs lines 59-63
generate_phrase(h) ==
    LET words == candidate_words(h)
    IN  IF words = <<>>
        THEN \* rng.gen_range(0..0) panics
             text_handler_panics(h, "empty_range_panic")
        ELSE \E word_index \in 0..(Len(words) - 1) :
               LET picked_word == words[word_index + 1]
                   found == get_phrases_with_word_in_common(indexed_phrases,
                                                            picked_word)
               IN  IF found.fault
                   THEN text_handler_panics(h, "lookup_panic")
                   ELSE IF found.phrases = {}
                   THEN \* phrases.choose(rng) is None
                        text_handler_panics(h, "choose_panic")
                   ELSE \E first_phrase, second_phrase \in found.phrases :
                          /\ generation' = [generation EXCEPT ![h] =
                               [picked_word |-> <<picked_word>>,
                                first_phrase |-> <<first_phrase>>,
                                second_phrase |-> <<second_phrase>>,
                                generated_response |->
                                  <<concatenate_indexed_phrases(first_phrase,
                                                                second_phrase)>>,
                                outcome |-> "generated"]]
                          /\ pc' = [pc EXCEPT ![h] = "send"]
                          /\ UNCHANGED <<mutex, phrases,
                                         word_indices_from_phrases,
                                         insertion_res>>

TextGenerate(h) ==
    /\ pc[h] = "generate"
    /\ generate_phrase(h)
    /\ UNCHANGED <<norm, boot, index_op, splice, indexed_phrases, reply_prob, database, new_prob, calls,
                   msg_count>>

\* context.send_message(..).call().await and the log line (main.rs lines 65-76)
TextSend(h) ==
    /\ pc[h] = "send"
    /\ text_handler_ends(h)
    /\ UNCHANGED <<norm, boot, index_op, splice, indexed_phrases, reply_prob, database, new_prob, calls,
                   msg_count>>

\* a setprob command arrives and its text is parsed (main.rs lines 79-81)
SetprobParse(h) ==
    /\ pc[h] = "idle"
    /\ \E msg_text \in SetprobMessages :
         /\ new_prob' = [new_prob EXCEPT ![h] = parse_f32(msg_text)]
         /\ pc' = [pc EXCEPT ![h] =
                     IF parse_f32(msg_text) = <<>> THEN "idle" ELSE "lock"]
    /\ UNCHANGED <<norm, boot, index_op, splice, indexed_phrases, reply_prob, mutex, database, phrases,
                   word_indices_from_phrases, insertion_res, generation,
                   calls, msg_count>>

\* state.lock().await.reply_prob = new_prob: the guard is a temporary of the
\* statement, taken and dropped within it (main.rs line 82)
SetprobAssign(h) ==
    /\ pc[h] = "lock"
    /\ lock_acquired(h)
    /\ reply_prob' = new_prob[h][1]
    /\ new_prob' = [new_prob EXCEPT ![h] = <<>>]
    /\ pc' = [pc EXCEPT ![h] = "idle"]
    /\ UNCHANGED <<norm, boot, index_op, splice, indexed_phrases, mutex, database, phrases,
                   word_indices_from_phrases, insertion_res, generation,
                   calls, msg_count>>

Next ==
    \/ \E h \in TextHandlers : TextLock(h)
    \/ \E h \in TextHandlers : TextNormalize(h)
    \/ \E h \in TextHandlers : TextInsert(h)
    \/ \E h \in TextHandlers : TextRng(h)
    \/ \E h \in TextHandlers : TextGenerate(h)
    \/ \E h \in TextHandlers : TextSend(h)
    \/ \E h \in SetprobHandlers : SetprobParse(h)
    \/ \E h \in SetprobHandlers : SetprobAssign(h)

Spec == Init /\ [][Next]_vars

(***************************************************************************)
(* IndexedPhrases on its own: insert_phrase called with one phrase after   *)
(* the other, as init_indexed_phrases and the handler loop call it.        *)
(***************************************************************************)
\* the phrases the normalizer yields
Phrases == UNION {{normalized[i] : i \in 1..Len(normalized)} :
                    normalized \in NormalizedMessages}

IndexInsert ==
    /\ Len(calls) < MaxInserts
    /\ \E phrase \in Phrases :
         /\ indexed_phrases' = insert_phrase(indexed_phrases, phrase).ip
         /\ index_op' = [op |-> "insert_phrase", arg |-> phrase,
                         res |-> insert_phrase(indexed_phrases, phrase).res]
         /\ calls' = Append(calls, phrase)
    /\ UNCHANGED <<norm, boot, splice, reply_prob, mutex, database, pc, phrases,
                   word_indices_from_phrases, insertion_res, generation,
                   new_prob, msg_count>>

NextIndex == IndexInsert

SpecIndex == Init /\ [][NextIndex]_vars

(***************************************************************************)
(* get_phrases_with_word_in_common on its own, called once on an index     *)
(* that two insert_phrase calls have built.                                *)
(***************************************************************************)
LookupIndices ==
    {[indexed_phrases |-> insert_phrase(insert_phrase(new_IndexedPhrases, p).ip, q).ip,
      calls |-> <<p, q>>] : p \in Phrases, q \in Phrases}

InitLookup ==
    /\ \E built \in LookupIndices :
         /\ indexed_phrases = built.indexed_phrases
         /\ calls = built.calls
    /\ reply_prob = 2
    /\ mutex = NoHolder
    /\ database = <<>>
    /\ pc = [h \in TextHandlers \cup SetprobHandlers |-> "idle"]
    /\ phrases = [h \in TextHandlers |-> <<>>]
    /\ word_indices_from_phrases = [h \in TextHandlers |-> {}]
    /\ insertion_res = [h \in TextHandlers |-> no_insertion_res]
    /\ generation = [h \in TextHandlers |-> no_generation]
    /\ new_prob = [h \in SetprobHandlers |-> <<>>]
    /\ msg_count = 0
    /\ splice = no_splice
    /\ norm = no_norm
    /\ index_op = no_index_op
    /\ boot = new_boot

\* the call, with any text as the word; it takes &self, a panic leaves the
\* index as it is
IndexLookup ==
    /\ index_op = no_index_op
    /\ \E word \in Phrases :
         index_op' = [op |-> "get_phrases_with_word_in_common", arg |-> word,
                      res |-> get_phrases_with_word_in_common(indexed_phrases, word)]
    /\ UNCHANGED <<norm, boot, splice, indexed_phrases, reply_prob, mutex,
                   database, pc, phrases, word_indices_from_phrases,
                   insertion_res, generation, new_prob, calls, msg_count>>

NextLookup == IndexLookup

SpecLookup == InitLookup /\ [][NextLookup]_vars


(***************************************************************************)
(* concatenate_indexed_phrases on its own, given two occurrences of one    *)
(* word as get_phrases_with_word_in_common returns them from an index of   *)
(* two multi-word phrases.                                                 *)
(***************************************************************************)
SpliceInputs ==
    UNION {
      LET ip == insert_phrase(insert_phrase(new_IndexedPhrases, p).ip, q).ip
      IN  UNION {
            LET found == get_phrases_with_word_in_common(ip, word).phrases
            IN  {[word |-> <<word>>, first_phrase |-> <<first_phrase>>,
                  second_phrase |-> <<second_phrase>>, sentence |-> <<>>] :
                    first_phrase \in found, second_phrase \in found} :
            word \in get_common_words(ip)} :
      p \in {x \in Phrases : contains(x, " ")},
      q \in {x \in Phrases : contains(x, " ")}}

InitSplice ==
    /\ InitBot
    /\ splice \in SpliceInputs
    /\ norm = no_norm
    /\ index_op = no_index_op
    /\ boot = new_boot

Concatenate ==
    /\ splice.sentence = <<>>
    /\ splice.first_phrase # <<>>
    /\ splice' = [splice EXCEPT !.sentence =
                    <<concatenate_indexed_phrases(splice.first_phrase[1],
                                                  splice.second_phrase[1])>>]
    /\ UNCHANGED <<norm, boot, index_op, indexed_phrases, reply_prob, mutex,
                   database, pc, phrases, word_indices_from_phrases,
                   insertion_res, generation, new_prob, calls, msg_count>>

NextSplice == Concatenate

SpecSplice == InitSplice /\ [][NextSplice]_vars

(***************************************************************************)
(* normalize_text_into_phrases on its own, given any text of the           *)
(* characters of the model.                                                *)
(***************************************************************************)
NormInputs == UNION {texts_of_len(Chars, n) : n \in 0..MaxNormLen}

InitNorm ==
    /\ InitBot
    /\ splice = no_splice
    /\ norm \in {[text |-> <<text>>, phrases |-> <<>>] : text \in NormInputs}
    /\ index_op = no_index_op
    /\ boot = new_boot

Normalize ==
    /\ norm.text # <<>>
    /\ norm.phrases = <<>>
    /\ norm' = [norm EXCEPT !.phrases =
                  <<normalize_text_into_phrases(norm.text[1])>>]
    /\ UNCHANGED <<boot, index_op, splice, indexed_phrases, reply_prob, mutex,
                   database, pc, phrases, word_indices_from_phrases,
                   insertion_res, generation, new_prob, calls, msg_count>>

NextNorm == Normalize

SpecNorm == InitNorm /\ [][NextNorm]_vars

(***************************************************************************)
(* init_indexed_phrases: the lines of bot_memory.txt are read one after    *)
(* the other, normalized and inserted, and the lines to keep are written   *)
(* to bot_memory.new.                                                      *)
(***************************************************************************)
\* the characters of a line of the file between two periods: two letters and
\* the space
LineChars == {"a", "b", " "}

LineSegments == UNION {texts_of_len(LineChars, n) : n \in 0..MaxSegmentLen}

\* the lines of the file: a line without a period, or two of them around one
BootLines ==
    LineSegments \cup {s \o <<".">> \o t : s \in LineSegments, t \in LineSegments}

InitBoot == Init

\* the outer loop takes the next line of the file (main.rs lines 103-105)
BootReadLine ==
    /\ boot.pc = "lines"
    /\ boot.phrases = <<>>
    /\ Len(boot.lines) < MaxLines
    /\ \E line \in BootLines :
         boot' = [boot EXCEPT !.lines = Append(@, line),
                              !.phrases = normalize_text_into_phrases(line)]
    /\ UNCHANGED <<norm, index_op, splice, indexed_phrases, reply_prob, mutex,
                   database, pc, phrases, word_indices_from_phrases,
                   insertion_res, generation, new_prob, calls, msg_count>>

\* one iteration of the inner loop (main.rs lines 105-109)
BootInsert ==
    /\ boot.pc = "lines"
    /\ boot.phrases # <<>>
    /\ LET line == boot.lines[Len(boot.lines)]
           phrase == Head(boot.phrases)
           done == insert_phrase(indexed_phrases, phrase)
       IN  /\ indexed_phrases' = done.ip
           /\ calls' = Append(calls, phrase)
           /\ boot' = [boot EXCEPT
                         !.phrases = Tail(@),
                         !.corrected_lines =
                            IF done.res.has_inserted_phrase
                            THEN Append(@, line) ELSE @]
    /\ UNCHANGED <<norm, index_op, splice, reply_prob, mutex, database, pc,
                   phrases, word_indices_from_phrases, insertion_res,
                   generation, new_prob, msg_count>>

\* the file has no more lines: corrected_lines is written to the new file
\* (main.rs lines 112-117)
BootWrite ==
    /\ boot.pc = "lines"
    /\ boot.phrases = <<>>
    /\ boot' = [boot EXCEPT !.pc = "done", !.new_file = <<boot.corrected_lines>>]
    /\ UNCHANGED <<norm, index_op, splice, indexed_phrases, reply_prob, mutex,
                   database, pc, phrases, word_indices_from_phrases,
                   insertion_res, generation, new_prob, calls, msg_count>>

NextBoot == BootReadLine \/ BootInsert \/ BootWrite

SpecBoot == InitBoot /\ [][NextBoot]_vars

(***************************************************************************)
(* Properties.                                                             *)
(***************************************************************************)
\* the phrases insert_phrase was called with so far
inserted == {calls[i] : i \in 1..Len(calls)}

\* the step is a call of insert_phrase with phrase p
inserting(p) == calls' = Append(calls, p)

is_key(ip, word) ==
    /\ word \in DOMAIN ip.interned_texts
    /\ ip.interned_texts[word] \in DOMAIN ip.indexed_phrases_by_word

\* the step is one iteration of the insertion loop of handler h
insert_step(h) ==
    /\ pc[h] = "insert"
    /\ phrases[h] # <<>>
    /\ phrases'[h] = Tail(phrases[h])

\* C1: every word generate_phrase may hand to get_phrases_with_word_in_common
\* is a key of the inverted index at that moment, and the lookup never faults.
C1_LookupWordIsAKey ==
    \A h \in TextHandlers :
      /\ generation[h].outcome # "lookup_panic"
      /\ pc[h] = "generate" =>
           \A i \in 1..Len(candidate_words(h)) :
              is_key(indexed_phrases, candidate_words(h)[i])

\* C2: generate_phrase invoked with an empty candidate pool reports the
\* condition to its caller; it does not fault on the empty range.
C2_EmptyPoolIsReported ==
    \A h \in TextHandlers : generation[h].outcome # "empty_range_panic"

\* C3: insert_phrase called with a multi-word phrase that was inserted before
\* reports has_inserted_phrase = false.
C3_SecondInsertReportsNotNew ==
    [][\A h \in TextHandlers :
         (/\ insert_step(h)
          /\ contains(Head(phrases[h]), " ")
          /\ Head(phrases[h]) \in inserted)
         => insertion_res'[h][1].has_inserted_phrase = FALSE]_vars

multi_word(phrase) == contains(phrase, " ")

\* word w stands at byte offset k of phrase p as a whole word
word_at(p, k, w) ==
    /\ w # <<>>
    /\ \A i \in 1..Len(w) : w[i] \notin AsciiWhitespaceChars
    /\ k + Len(w) <= Len(p)
    /\ SubSeq(p, k + 1, k + Len(w)) = w
    /\ k = 0 \/ p[k] \in AsciiWhitespaceChars
    /\ k + Len(w) = Len(p) \/ p[k + Len(w) + 1] \in AsciiWhitespaceChars

words_in(p) ==
    {w \in {SubSeq(p, i, j) : i, j \in 1..Len(p)} :
        \E k \in 0..Len(p) : word_at(p, k, w)}

\* what a lookup of word w returns for phrase p
occurrences_returned(ip, w, p) ==
    {o \in get_phrases_with_word_in_common(ip, w).phrases : o.phrase_content = p}

\* C4: inserting a multi-word phrase that was inserted before leaves the
\* interning table and every occurrence set as they were, and a lookup returns
\* each occurrence of each of its words once.
C4_ReinsertionLeavesIndexUnchanged ==
    [][\A p \in inserted :
         (inserting(p) /\ multi_word(p))
         => /\ indexed_phrases' = indexed_phrases
            /\ \A w \in words_in(p) :
                 Cardinality(occurrences_returned(indexed_phrases', w, p))
                   = Cardinality({k \in 0..Len(p) : word_at(p, k, w)})]_vars

\* a multi-word phrase has been inserted twice
C4_Witness ==
    \E i, j \in 1..Len(calls) :
        i < j /\ calls[i] = calls[j] /\ multi_word(calls[i])

in_window(h) == pc[h] \in {"insert", "generate"}

\* C5: from the first insert_phrase of a message until generation has read the
\* index, no other handler runs a step that reads or writes BotState: every
\* other text handler is outside its locked section and stays there, no setprob
\* handler assigns, and BotState changes only by the steps of the handler itself.
C5_InsertThenGenerateIsAtomic ==
    [][\A h \in TextHandlers :
         in_window(h) =>
           /\ mutex = h
           /\ \A g \in TextHandlers \ {h} :
                pc[g] \in {"idle", "panicked"} /\ pc'[g] = pc[g]
           /\ \A g \in SetprobHandlers : ~(pc[g] = "lock" /\ pc'[g] = "idle")
           /\ (pc'[h] = pc[h] /\ phrases'[h] = phrases[h])
                => (indexed_phrases' = indexed_phrases /\ reply_prob' = reply_prob)]_vars

\* a setprob handler waits for the lock while a text handler is between its
\* insertions and its generation
C5_Witness ==
    \E h \in TextHandlers, g \in SetprobHandlers :
        /\ pc[h] = "generate"
        /\ word_indices_from_phrases[h] # {}
        /\ pc[g] = "lock"

C7_OffsetsAreWordBoundaries ==
    \A word_index \in DOMAIN indexed_phrases.indexed_phrases_by_word :
      \A o \in indexed_phrases.indexed_phrases_by_word[word_index] :
        LET w == text_of(indexed_phrases, word_index)
            p == text_of(indexed_phrases, o.interned_phrase_index)
            k == o.word_pos_in_phrase
        IN  /\ k >= 0 /\ k < Len(p)
            /\ k + Len(w) <= Len(p)
            /\ SubSeq(p, k + 1, k + Len(w)) = w
            /\ k + Len(w) = Len(p) \/ p[k + Len(w) + 1] \in AsciiWhitespaceChars
            /\ \/ k = 0
               \/ /\ k >= 2
                  /\ p[k] \in AsciiWhitespaceChars
                  /\ p[k - 1] \notin AsciiWhitespaceChars

\* a word is stored at two offsets of one phrase, one of them after a tab
C7_Witness ==
    \E word_index \in DOMAIN indexed_phrases.indexed_phrases_by_word :
      \E o1, o2 \in indexed_phrases.indexed_phrases_by_word[word_index] :
        /\ o1.interned_phrase_index = o2.interned_phrase_index
        /\ o1.word_pos_in_phrase < o2.word_pos_in_phrase
        /\ text_of(indexed_phrases, o2.interned_phrase_index)[o2.word_pos_in_phrase]
             = "\t"

interning_is_a_bijection(ip) ==
        /\ Cardinality(DOMAIN ip.interned_texts) = Len(ip.indexed_texts)
        /\ {ip.interned_texts[t] : t \in DOMAIN ip.interned_texts}
             = 0..(Len(ip.indexed_texts) - 1)
        /\ \A t \in DOMAIN ip.interned_texts :
             ip.indexed_texts[ip.interned_texts[t] + 1] = t
        /\ \A i \in 1..Len(ip.indexed_texts) :
             /\ ip.indexed_texts[i] \in DOMAIN ip.interned_texts
             /\ ip.interned_texts[ip.indexed_texts[i]] = i - 1
        /\ \A t1, t2 \in DOMAIN ip.interned_texts :
             ip.interned_texts[t1] = ip.interned_texts[t2] => t1 = t2

\* the words of p from byte offset k on that are not in known, each once, in
\* the order of their first occurrence
RECURSIVE first_occurrences(_, _, _)
first_occurrences(p, k, known) ==
    IF k >= Len(p) THEN <<>>
    ELSE LET here == {w \in {SubSeq(p, k + 1, j) : j \in (k + 1)..Len(p)} :
                        word_at(p, k, w)}
         IN  IF here = {} \/ here \subseteq known
             THEN first_occurrences(p, k + 1, known)
             ELSE <<CHOOSE w \in here : TRUE>>
                    \o first_occurrences(p, k + 1, known \cup here)

\* C8: the interning table is a bijection: the ids are 0, 1, .. in the order
\* of indexed_texts, no two strings share an id, an id resolves to the string
\* that was interned to it; an insertion appends the phrase and then its words
\* in the order of their first occurrence, and only those not interned yet.
C8_InterningIsABijection ==
    /\ []interning_is_a_bijection(indexed_phrases)
    /\ [][\A p \in Phrases :
            inserting(p) =>
              LET known == DOMAIN indexed_phrases.interned_texts
              IN  indexed_phrases'.indexed_texts
                    = indexed_phrases.indexed_texts
                        \o (IF p \in known THEN <<>> ELSE <<p>>)
                        \o (IF multi_word(p)
                            THEN first_occurrences(p, 0, known \cup {p})
                            ELSE <<>>)]_vars

\* a string was inserted as a single-word phrase and is a word of a multi-word
\* phrase as well
C8_Witness ==
    /\ Len(indexed_phrases.indexed_texts) >= 3
    /\ \E p \in inserted :
         ~multi_word(p) /\ p \in get_common_words(indexed_phrases)

\* the rule of the claim: swap exactly when first's offset is 0 and second's
\* text from its offset on has no space, then first's text before its offset
\* followed by second's text from its offset
spliced(first, second) ==
    LET swapped == /\ first.word_pos_in_phrase = 0
                   /\ \A i \in (second.word_pos_in_phrase + 1)..Len(second.phrase_content) :
                        second.phrase_content[i] # " "
        a == IF swapped THEN second ELSE first
        b == IF swapped THEN first ELSE second
    IN  [i \in 1..(a.word_pos_in_phrase
                     + Len(b.phrase_content) - b.word_pos_in_phrase) |->
           IF i <= a.word_pos_in_phrase
           THEN a.phrase_content[i]
           ELSE b.phrase_content[i - a.word_pos_in_phrase + b.word_pos_in_phrase]]

\* C9: the sentence concatenate_indexed_phrases returns is the splice of the
\* two occurrences by the swap rule of the claim.
C9_ConcatenationFollowsTheRule ==
    splice.sentence # <<>> =>
      splice.sentence[1] = spliced(splice.first_phrase[1], splice.second_phrase[1])

\* two different occurrences were concatenated with the swap
C9_Witness ==
    /\ splice.sentence # <<>>
    /\ splice.first_phrase[1] # splice.second_phrase[1]
    /\ splice.first_phrase[1].word_pos_in_phrase = 0
    /\ ~contains(slice_from(splice.second_phrase[1].phrase_content,
                            splice.second_phrase[1].word_pos_in_phrase), " ")

\* C10: the sentence made of two occurrences of a word of the index is never
\* the bare word: it has the word and at least one other word.
C10_NeverTheBareWord ==
    splice.sentence # <<>> =>
      /\ splice.sentence[1] # splice.word[1]
      /\ Len(split_ascii_whitespace(splice.sentence[1])) >= 2
      /\ splice.word[1] \in words_in(splice.sentence[1])

\* the first occurrence starts its phrase and the second one ends its phrase,
\* in two different phrases, and they were concatenated
C10_Witness ==
    /\ splice.sentence # <<>>
    /\ splice.first_phrase[1].word_pos_in_phrase = 0
    /\ splice.first_phrase[1].phrase_content
         # splice.second_phrase[1].phrase_content
    /\ slice_from(splice.second_phrase[1].phrase_content,
                  splice.second_phrase[1].word_pos_in_phrase) = splice.word[1]

only_separators(text) ==
    \A i \in 1..Len(text) : text[i] \in PunctuationChars \cup WhitespaceChars

\* C11: a text of sentence delimiters, punctuation and whitespace only is
\* normalized into the empty sequence of phrases; no phrase is the empty string.
C11_OnlySeparatorsYieldNoPhrase ==
    (norm.phrases # <<>> /\ only_separators(norm.text[1]))
    => norm.phrases[1] = <<>>

\* the positions where a segment starts: a character that is no delimiter, at
\* the start of the text or right after a delimiter
segment_starts(text) ==
    {i \in 1..Len(text) :
        text[i] \notin PeriodChars /\ (i = 1 \/ text[i - 1] \in PeriodChars)}

\* the k-th segment of the text that is not empty
segment(text, k) ==
    LET starts == segment_starts(text)
        from == CHOOSE i \in starts : Cardinality({j \in starts : j < i}) = k - 1
        to == CHOOSE e \in from..Len(text) :
                /\ \A j \in from..e : text[j] \notin PeriodChars
                /\ e = Len(text) \/ text[e + 1] \in PeriodChars
    IN  SubSeq(text, from, to)

\* the letters of a text, in lowercase
letters_of(text) ==
    LET letters == SelectSeq(text, LAMBDA c : c \in Lowercase \cup Uppercase)
    IN  [i \in 1..Len(letters) |-> IF letters[i] \in Uppercase THEN "a" ELSE letters[i]]

is_normal(p) ==
    /\ \A i \in 1..Len(p) : p[i] \notin Uppercase \cup PunctuationChars \cup PeriodChars
    /\ \A i \in 1..(Len(p) - 1) :
         ~(p[i] \in WhitespaceChars /\ p[i + 1] \in WhitespaceChars)
    /\ p # <<>> => (p[1] \notin WhitespaceChars /\ p[Len(p)] \notin WhitespaceChars)

\* C12: every phrase of a normalized text is lowercased, has no punctuation and
\* no sentence delimiter, no run of two or more whitespace characters and no
\* leading or trailing whitespace, and the phrases stand in the order of the
\* segments they come from.
C12_PhrasesAreNormalInSegmentOrder ==
    norm.phrases # <<>> =>
      LET text == norm.text[1]
          out == norm.phrases[1]
      IN  /\ \A i \in 1..Len(out) : is_normal(out[i])
          /\ Len(out) = Cardinality(segment_starts(text))
          /\ \A k \in 1..Len(out) : letters_of(out[k]) = letters_of(segment(text, k))

\* a text with an uppercase letter was normalized into two phrases with
\* different letters
C12_Witness ==
    /\ norm.phrases # <<>>
    /\ \E i \in 1..Len(norm.text[1]) : norm.text[1][i] \in Uppercase
    /\ Len(norm.phrases[1]) = 2
    /\ letters_of(norm.phrases[1][1]) # letters_of(norm.phrases[1][2])

looked_up == index_op.op = "get_phrases_with_word_in_common"

\* C13: get_phrases_with_word_in_common called with a word that is no key of
\* the inverted index (never interned, or interned from a single-word phrase
\* only) faults and returns nothing, and the call leaves the index unchanged.
C13_LookupOfUnknownWordFaults ==
    /\ []((looked_up /\ ~is_key(indexed_phrases, index_op.arg))
            => (index_op.res.fault /\ index_op.res.phrases = {}))
    /\ [][(index_op' # index_op /\ index_op'.op = "get_phrases_with_word_in_common")
            => indexed_phrases' = indexed_phrases]_vars

\* a word interned from a single-word phrase was looked up in an index that has
\* keys, and the call faulted
C13_Witness ==
    /\ looked_up
    /\ index_op.arg \in DOMAIN indexed_phrases.interned_texts
    /\ ~is_key(indexed_phrases, index_op.arg)
    /\ DOMAIN indexed_phrases.indexed_phrases_by_word # {}
    /\ index_op.res.fault

\* the byte offsets of phrase p where a word starts
word_offsets(p) == {k \in 0..Len(p) : \E w \in words_in(p) : word_at(p, k, w)}

\* the i-th of the word offsets of p, from the left
word_offset(p, i) ==
    CHOOSE k \in word_offsets(p) :
        Cardinality({j \in word_offsets(p) : j < k}) = i - 1

store_grows(a, b) ==
    /\ Len(b.indexed_texts) >= Len(a.indexed_texts)
    /\ \A i \in 1..Len(a.indexed_texts) : b.indexed_texts[i] = a.indexed_texts[i]
    /\ \A t \in DOMAIN a.interned_texts :
         /\ t \in DOMAIN b.interned_texts
         /\ b.interned_texts[t] = a.interned_texts[t]
    /\ \A w \in DOMAIN a.indexed_phrases_by_word :
         /\ w \in DOMAIN b.indexed_phrases_by_word
         /\ a.indexed_phrases_by_word[w] \subseteq b.indexed_phrases_by_word[w]

\* C15: every step keeps every id-to-text mapping and every occurrence of the
\* store, and a step that is no insert_phrase call (the lookup and the
\* generation among them) leaves the store as it is.
C15_StoreOnlyGrows ==
    [][/\ store_grows(indexed_phrases, indexed_phrases')
       /\ (~\E h \in TextHandlers : insert_step(h))
            => indexed_phrases' = indexed_phrases
       /\ (\E h \in TextHandlers : pc[h] = "generate" /\ pc'[h] # "generate")
            => indexed_phrases' = indexed_phrases]_vars

\* a sentence was generated from a store that grew over two messages and holds
\* a word with several occurrences
C15_Witness ==
    /\ msg_count = 2
    /\ Len(calls) >= 2
    /\ \E h \in TextHandlers : generation[h].outcome = "generated"
    /\ \E w \in DOMAIN indexed_phrases.indexed_phrases_by_word :
         Cardinality(indexed_phrases.indexed_phrases_by_word[w]) >= 3

\* C16: an occurrence concatenated with itself gives the text of its phrase
\* as it is, and its offset lies within the phrase, so that no slice faults.
C16_SelfSpliceIsThePhrase ==
    (splice.sentence # <<>> /\ splice.first_phrase = splice.second_phrase)
    => /\ splice.first_phrase[1].word_pos_in_phrase
            <= Len(splice.first_phrase[1].phrase_content)
       /\ splice.sentence[1] = splice.first_phrase[1].phrase_content

\* an occurrence that does not start its phrase was concatenated with itself
C16_Witness ==
    /\ splice.sentence # <<>>
    /\ splice.first_phrase = splice.second_phrase
    /\ splice.first_phrase[1].word_pos_in_phrase > 0

\* the phrase ids of the occurrences stored in ip
phrase_ids(ip) ==
    {o.interned_phrase_index :
        o \in UNION {ip.indexed_phrases_by_word[w] :
                       w \in DOMAIN ip.indexed_phrases_by_word}}

\* C17: the phrase id of every stored occurrence is the id of a text that was
\* inserted as a multi-word phrase, and no id is both a key of the inverted
\* index and the phrase id of an occurrence.
C17_PhraseIdsAreMultiWordPhrases ==
    /\ \A id \in phrase_ids(indexed_phrases) :
         /\ id \in 0..(Len(indexed_phrases.indexed_texts) - 1)
         /\ text_of(indexed_phrases, id) \in inserted
         /\ multi_word(text_of(indexed_phrases, id))
    /\ phrase_ids(indexed_phrases)
         \cap DOMAIN indexed_phrases.indexed_phrases_by_word = {}

\* two multi-word phrases are stored, and a key of the inverted index has an id
\* between the ids of the two phrases
C17_Witness ==
    \E id1, id2 \in phrase_ids(indexed_phrases) :
      \E w \in DOMAIN indexed_phrases.indexed_phrases_by_word :
        id1 < w /\ w < id2

\* the phrases of the lines before line i
phrases_before(lines, i) ==
    UNION {{normalize_text_into_phrases(lines[j])[k] :
              k \in 1..Len(normalize_text_into_phrases(lines[j]))} :
           j \in 1..(i - 1)}

\* line i yields a multi-word phrase that no line before it yields
yields_new_phrase(lines, i) ==
    \E k \in 1..Len(normalize_text_into_phrases(lines[i])) :
        LET phrase == normalize_text_into_phrases(lines[i])[k]
        IN  multi_word(phrase) /\ phrase \notin phrases_before(lines, i)

\* the lines from line i on that yield a new phrase, each once
RECURSIVE lines_to_keep(_, _)
lines_to_keep(lines, i) ==
    IF i > Len(lines) THEN <<>>
    ELSE (IF yields_new_phrase(lines, i) THEN <<lines[i]>> ELSE <<>>)
            \o lines_to_keep(lines, i + 1)

\* C18: the file init_indexed_phrases writes holds every line that yielded a
\* newly indexed multi-word phrase once and no other line, however many
\* phrases a line splits into.
C18_EachLineIsKeptOnceOrDropped ==
    boot.pc = "done" => boot.new_file[1] = lines_to_keep(boot.lines, 1)

====
